---- MODULE Spec2Model ----
(***************************************************************************)
(* A model of three pieces of the knowledge-graph embedding code base:     *)
(*   - CWATrainingLoop.train      (poem/training_loops/cwa.py)             *)
(*   - DistMult scoring and post_parameter_update                          *)
(*                                (poem/models/unimodal/distmult.py)       *)
(*   - TransE.loss_fct            (kg_embeddings_model/trans_e.py)         *)
(*                                                                         *)
(* Floating point numbers are modelled exactly: training-loop values are   *)
(* rationals [num, den]; embedding entries are multiples of 1/Unit stored  *)
(* as their integer numerator.                                             *)
(***************************************************************************)
EXTENDS Integers, Sequences, FiniteSets

VARIABLES
    \* ---- CWATrainingLoop.train ----
    pc,                     \* position of the call of train
    entries_at_call,        \* len(self.losses_per_epochs) when train was called
    exc,                    \* exception that left train, or "none"
    training_instances,     \* the Instances argument
    num_epochs,             \* argument
    batch_size,             \* argument
    label_smoothing,        \* argument
    eps_num,                \* label_smoothing_epsilon = eps_num / EpsDen
    subject_relation_pairs, \* local, re-bound every epoch
    labels,                 \* local, re-bound every epoch
    epoch,                  \* iterations of the epoch loop completed
    batches,                \* local
    labels_batches,         \* local
    b,                      \* index of the batch the inner loop is at
    batch_labels_full,      \* local: the label matrix of the current batch
    current_epoch_loss,     \* local accumulator
    batch_losses,           \* (loss.item(), current_batch_size) of this epoch
    seen,                   \* (pair, label set) rows handed out this epoch
    losses_per_epochs,      \* self.losses_per_epochs
    last_op,                \* last optimizer operation of the current call
    grad_count,             \* backward passes accumulated in .grad
    unconstrained,          \* an optimizer step was applied and
                            \* post_parameter_update has not run since
    \* ---- DistMult ----
    entity_embeddings,
    relation_embeddings,
    regularizer_updated,
    score_input,            \* the batch of (h, r, t) rows to score
    scores,
    last_call,
    raised,
    \* ---- TransE.loss_fct ----
    margin_loss,
    pos_score,
    neg_score,
    loss,
    loss_computed

trainVars == <<pc, entries_at_call, exc, training_instances, num_epochs, batch_size,
               label_smoothing, eps_num, subject_relation_pairs, labels,
               epoch, batches, labels_batches, b, batch_labels_full,
               current_epoch_loss, batch_losses, seen, losses_per_epochs,
               last_op, grad_count>>

modelVars == <<entity_embeddings, relation_embeddings, regularizer_updated,
               score_input, scores, last_call, raised>>

lossVars == <<margin_loss, pos_score, neg_score, loss, loss_computed>>

vars == <<trainVars, unconstrained, modelVars, lossVars>>

(***************************************************************************)
(* Bounds                                                                  *)
(***************************************************************************)
MaxTriples == 3

MaxEntities == 2

MaxEpochs == 2

MaxBatchSize == 2

EpsDen == 2

NumEntities == 2

NumRelations == 2

MaxScore == 3

MaxMargin == 3

(***************************************************************************)
(* Exact arithmetic                                                        *)
(***************************************************************************)
Min(x, y) == IF x <= y THEN x ELSE y

Max(x, y) == IF x >= y THEN x ELSE y

Rat(n, d) == [num |-> n, den |-> d]

RatAdd(x, y) == Rat(x.num * y.den + y.num * x.den, x.den * y.den)

RatSub(x, y) == Rat(x.num * y.den - y.num * x.den, x.den * y.den)

RatMul(x, y) == Rat(x.num * y.num, x.den * y.den)

RatDiv(x, y) == Rat(x.num * y.den, x.den * y.num)

RECURSIVE Gcd(_, _)
Gcd(x, y) == IF y = 0 THEN x ELSE Gcd(y, x % y)

\* the value of a quotient does not remember its operands
Quotient(n, d) == LET g == Gcd(n, d) IN Rat(n \div g, d \div g)

RatEq(x, y) == x.num * y.den = y.num * x.den

RECURSIVE SumSeq(_)
SumSeq(s) == IF s = <<>> THEN 0 ELSE Head(s) + SumSeq(Tail(s))

(***************************************************************************)
(* Training instances                                                      *)
(***************************************************************************)
EntityIds(ent) == 0 .. (ent - 1)

\* the k-th distinct (head, relation) pair over ent entities
PairOf(k, ent) == <<(k - 1) % ent, (k - 1) \div ent>>

\* the completions of the k-th pair: one entity for odd k, every entity for
\* even k
LabelsOf(k, ent) ==
    IF k % 2 = 1 THEN {(k \div 2) % ent} ELSE EntityIds(ent)

\* the training sets train is called with: n distinct pairs over one
\* entity or over MaxEntities entities
TrainingSets ==
    { [instances    |-> [k \in 1 .. c[1] |-> PairOf(k, c[2])],
       labels       |-> [k \in 1 .. c[1] |-> LabelsOf(k, c[2])],
       num_entities |-> c[2]] :
      c \in (0 .. MaxTriples) \X {1, MaxEntities} }

NoInstances == [instances |-> <<>>, labels |-> <<>>, num_entities |-> 1]

ShuffleIndices(n) ==
    {f \in [1 .. n -> 1 .. n] : \A i, j \in 1 .. n : f[i] = f[j] => i = j}

\* x[indices] / [x[i] for i in indices]; indices are 0-based in the code
TakeIndices(x, indices) == [i \in 1 .. Len(indices) |-> x[indices[i]]]

ShufflePairs(x, indices) == TakeIndices(x, indices)

ShuffleLabelsUnpermuted(x, indices) == x

ShuffleLabels(x, indices) == TakeIndices(x, indices)

\* split_list_in_batches: consecutive chunks of batch_size, last may be short
SplitListInBatches(input_list, size) ==
    LET n == Len(input_list)
        m == (n + size - 1) \div size
    IN  [j \in 1 .. m |->
            SubSeq(input_list, (j - 1) * size + 1, Min(j * size, n))]

(***************************************************************************)
(* Label matrix of one batch                                               *)
(***************************************************************************)
Epsilon == Rat(eps_num, EpsDen)

\* torch.zeros(...) followed by batch_labels_full[i, batch_labels[i]] = 1
HardLabels(batch_labels, ent) ==
    [i \in 1 .. Len(batch_labels) |->
        [e \in EntityIds(ent) |->
            IF e \in batch_labels[i] THEN Rat(1, 1) ELSE Rat(0, 1)]]

\* (x * (1.0 - epsilon)) + (epsilon / (num_entities - 1))
SmoothLabels(full, epsilon, ent) ==
    [i \in DOMAIN full |->
        [e \in DOMAIN full[i] |->
            RatAdd(RatMul(full[i][e], RatSub(Rat(1, 1), epsilon)),
                   RatDiv(epsilon, Rat(ent - 1, 1)))]]

\* values of loss.item() a forward pass may return
LossValues == {0, 1}

AccumulateLossUnweighted(acc, batch_loss, size) == acc + batch_loss

\* current_epoch_loss += loss.item() * current_batch_size
AccumulateLoss(acc, batch_loss, size) == acc + batch_loss * size

\* self.losses_per_epochs.append(...)
AppendLoss(history, value) == Append(history, value)

BatchPhases == {"labels", "zero_grad", "forward", "backward", "step"}

\* the arguments and locals of train stop existing when the call ends
FrameDropped ==
    /\ entries_at_call' = 0
    /\ training_instances' = NoInstances
    /\ num_epochs' = 0
    /\ batch_size' = 1
    /\ label_smoothing' = FALSE
    /\ eps_num' = 0
    /\ subject_relation_pairs' = <<>>
    /\ labels' = <<>>
    /\ epoch' = 0
    /\ batches' = <<>>
    /\ labels_batches' = <<>>
    /\ b' = 1
    /\ batch_labels_full' = <<>>
    /\ current_epoch_loss' = 0
    /\ batch_losses' = <<>>
    /\ seen' = <<>>

(***************************************************************************)
(* CWATrainingLoop.train                                                   *)
(***************************************************************************)
TrainIdle ==
    /\ pc = "idle"
    /\ entries_at_call = 0
    /\ exc = "none"
    /\ training_instances = NoInstances
    /\ num_epochs = 0
    /\ batch_size = 1
    /\ label_smoothing = FALSE
    /\ eps_num = 0
    /\ subject_relation_pairs = <<>>
    /\ labels = <<>>
    /\ epoch = 0
    /\ batches = <<>>
    /\ labels_batches = <<>>
    /\ b = 1
    /\ batch_labels_full = <<>>
    /\ current_epoch_loss = 0
    /\ batch_losses = <<>>
    /\ seen = <<>>
    /\ losses_per_epochs = <<>>
    /\ last_op = "none"
    /\ grad_count = 0

\* no call of train is in progress: none was made yet, or the last one
\* returned or raised
NotTraining == pc \in {"idle", "done", "raised"}

\* lines 21-37: the call binds its arguments and locals.  train can be
\* called again on the same loop object; the epochs recorded over all calls
\* are capped at MaxEpochs.  (Line 30 moves the model to the device and
\* changes nothing that is tracked here.)
Train(ti, ne, bs, ls, en) ==
    /\ NotTraining
    /\ Len(losses_per_epochs) + ne <= MaxEpochs
    /\ training_instances' = ti
    /\ num_epochs' = ne
    /\ batch_size' = bs
    /\ label_smoothing' = ls
    /\ eps_num' = en
    /\ subject_relation_pairs' = ti.instances
    /\ labels' = ti.labels
    /\ entries_at_call' = Len(losses_per_epochs)
    /\ exc' = "none"
    /\ last_op' = "none"
    /\ pc' = "epoch_start"
    /\ UNCHANGED <<epoch, batches, labels_batches, b, batch_labels_full,
                   current_epoch_loss, batch_losses, seen, losses_per_epochs,
                   grad_count, unconstrained, modelVars, lossVars>>

\* lines 38-45: one more epoch: shuffle, split, reset the accumulator
EpochStart ==
    /\ pc = "epoch_start"
    /\ epoch < num_epochs
    /\ \E indices \in ShuffleIndices(Len(subject_relation_pairs)) :
         LET p == ShufflePairs(subject_relation_pairs, indices)
             l == ShuffleLabels(labels, indices)
             bp == SplitListInBatches(p, batch_size)
             bl == SplitListInBatches(l, batch_size)
         IN  /\ subject_relation_pairs' = p
             /\ labels' = l
             /\ batches' = bp
             /\ labels_batches' = bl
             /\ pc' = IF Min(Len(bp), Len(bl)) >= 1 THEN "labels"
                                                   ELSE "epoch_end"
    /\ current_epoch_loss' = 0
    /\ batch_losses' = <<>>
    /\ seen' = <<>>
    /\ b' = 1
    /\ UNCHANGED <<exc, entries_at_call, training_instances, num_epochs,
                   batch_size,
                   label_smoothing, eps_num, epoch, batch_labels_full,
                   losses_per_epochs, last_op, grad_count,
                   unconstrained, modelVars, lossVars>>

\* lines 47-57: take the next batch and build its label matrix
BuildLabels ==
    /\ pc = "labels"
    /\ LET batch_pairs == batches[b]
           batch_labels == labels_batches[b]
           ent == training_instances.num_entities
           full == HardLabels(batch_labels, ent)
       IN  IF label_smoothing /\ ent - 1 = 0
           THEN \* epsilon / 0
                /\ exc' = "ZeroDivisionError"
                /\ pc' = "raised"
                /\ FrameDropped
           ELSE /\ seen' = seen \o [i \in 1 .. Len(batch_pairs) |->
                                       <<batch_pairs[i], batch_labels[i]>>]
                /\ batch_labels_full' =
                      IF label_smoothing
                      THEN SmoothLabels(full, Epsilon, ent)
                      ELSE full
                /\ pc' = "zero_grad"
                /\ UNCHANGED <<exc, entries_at_call, training_instances,
                               num_epochs, batch_size, label_smoothing,
                               eps_num, subject_relation_pairs, labels,
                               epoch, batches, labels_batches, b,
                               current_epoch_loss, batch_losses>>
    /\ UNCHANGED <<losses_per_epochs, last_op, grad_count, unconstrained,
                   modelVars, lossVars>>

ZeroGradMissing ==
    /\ pc = "zero_grad"
    /\ pc' = "forward"
    /\ UNCHANGED <<exc, entries_at_call, training_instances, num_epochs,
                   batch_size,
                   label_smoothing, eps_num, subject_relation_pairs, labels,
                   epoch, batches, labels_batches, b, batch_labels_full,
                   current_epoch_loss, batch_losses, seen, losses_per_epochs,
                   last_op, grad_count, unconstrained, modelVars,
                   lossVars>>

\* line 61: self.optimizer.zero_grad()
ZeroGrad ==
    /\ pc = "zero_grad"
    /\ grad_count' = 0
    /\ last_op' = "zero_grad"
    /\ pc' = "forward"
    /\ UNCHANGED <<exc, entries_at_call, training_instances, num_epochs,
                   batch_size,
                   label_smoothing, eps_num, subject_relation_pairs, labels,
                   epoch, batches, labels_batches, b, batch_labels_full,
                   current_epoch_loss, batch_losses, seen, losses_per_epochs,
                   unconstrained, modelVars, lossVars>>

\* lines 62-63: forward pass; the loss value is the model's to choose
Forward ==
    /\ pc = "forward"
    /\ \E batch_loss \in LossValues :
         LET current_batch_size == Len(batches[b])
         IN  /\ current_epoch_loss' =
                    AccumulateLoss(current_epoch_loss, batch_loss,
                                   current_batch_size)
             /\ batch_losses' =
                    Append(batch_losses, <<batch_loss, current_batch_size>>)
    /\ last_op' = "forward"
    /\ pc' = "backward"
    /\ UNCHANGED <<exc, entries_at_call, training_instances, num_epochs,
                   batch_size,
                   label_smoothing, eps_num, subject_relation_pairs, labels,
                   epoch, batches, labels_batches, b, batch_labels_full,
                   seen, losses_per_epochs, grad_count, unconstrained,
                   modelVars, lossVars>>

\* line 65: loss.backward() adds this batch's gradient to .grad
Backward ==
    /\ pc = "backward"
    /\ grad_count' = grad_count + 1
    /\ last_op' = "backward"
    /\ pc' = "step"
    /\ UNCHANGED <<exc, entries_at_call, training_instances, num_epochs,
                   batch_size,
                   label_smoothing, eps_num, subject_relation_pairs, labels,
                   epoch, batches, labels_batches, b, batch_labels_full,
                   current_epoch_loss, batch_losses, seen, losses_per_epochs,
                   unconstrained, modelVars, lossVars>>

\* line 66: self.optimizer.step(), then the zip of line 47 advances
OptimizerStep ==
    /\ pc = "step"
    /\ unconstrained' = TRUE
    /\ last_op' = "step"
    /\ b' = b + 1
    /\ pc' = IF b + 1 <= Min(Len(batches), Len(labels_batches))
             THEN "labels" ELSE "epoch_end"
    /\ UNCHANGED <<exc, entries_at_call, training_instances, num_epochs,
                   batch_size,
                   label_smoothing, eps_num, subject_relation_pairs, labels,
                   epoch, batches, labels_batches, batch_labels_full,
                   current_epoch_loss, batch_losses, seen, losses_per_epochs,
                   grad_count, modelVars, lossVars>>

\* line 69: track the epoch loss
EpochEnd ==
    /\ pc = "epoch_end"
    /\ IF Len(subject_relation_pairs) = 0
       THEN \* 0. / 0
            /\ exc' = "ZeroDivisionError"
            /\ pc' = "raised"
            /\ FrameDropped
            /\ UNCHANGED losses_per_epochs
       ELSE /\ losses_per_epochs' =
                   AppendLoss(losses_per_epochs,
                              Quotient(current_epoch_loss,
                                       Len(subject_relation_pairs)))
            /\ epoch' = epoch + 1
            /\ pc' = "epoch_start"
            /\ UNCHANGED <<exc, entries_at_call, training_instances,
                           num_epochs, batch_size, label_smoothing, eps_num,
                           subject_relation_pairs, labels, batches,
                           labels_batches, b, batch_labels_full,
                           current_epoch_loss, batch_losses, seen>>
    /\ UNCHANGED <<last_op, grad_count, unconstrained, modelVars, lossVars>>

\* line 71: the epoch loop is exhausted
Return ==
    /\ pc = "epoch_start"
    /\ ~(epoch < num_epochs)
    /\ pc' = "done"
    /\ FrameDropped
    /\ UNCHANGED <<exc, losses_per_epochs, last_op, grad_count,
                   unconstrained, modelVars, lossVars>>

RaiseAndContinue ==
    /\ pc \in BatchPhases
    /\ exc' = "Error"
    /\ b' = b + 1
    /\ pc' = IF b + 1 <= Min(Len(batches), Len(labels_batches))
             THEN "labels" ELSE "epoch_end"
    /\ UNCHANGED <<entries_at_call, training_instances, num_epochs,
                   batch_size,
                   label_smoothing, eps_num, subject_relation_pairs, labels,
                   epoch, batches, labels_batches, batch_labels_full,
                   current_epoch_loss, batch_losses, seen, losses_per_epochs,
                   last_op, grad_count, unconstrained, modelVars,
                   lossVars>>

\* lines 47-66 have no try/except: an exception raised by a step of the
\* batch leaves train
Raise ==
    /\ pc \in BatchPhases
    /\ exc' = "Error"
    /\ pc' = "raised"
    /\ FrameDropped
    /\ UNCHANGED <<losses_per_epochs, last_op, grad_count, unconstrained,
                   modelVars, lossVars>>

(***************************************************************************)
(* DistMult                                                                *)
(***************************************************************************)
EmbeddingDim == 2

Dims == 1 .. EmbeddingDim

RECURSIVE SumOver(_, _)
SumOver(f, S) ==
    IF S = {} THEN 0
    ELSE LET i == CHOOSE x \in S : TRUE IN f[i] + SumOver(f, S \ {i})

ISqrt(n) == CHOOSE k \in 0 .. n : k * k <= n /\ n < (k + 1) * (k + 1)

\* Euclidean norm of a row (exact on the rows drawn below)
Norm(v) == ISqrt(SumOver([i \in DOMAIN v |-> v[i] * v[i]], DOMAIN v))

Tilt == [i \in Dims |-> IF i = 1 THEN 3 ELSE IF i = 2 THEN 4 ELSE 0]

\* the stored numerator of 1.0
Unit == Norm(Tilt)

Scaled(k, v) == [i \in DOMAIN v |-> k * v[i]]

\* rows an entity table is filled with: 0, 1 or 2 times a unit vector, so
\* that normalizing is exact
EntityRows ==
    << [i \in Dims |-> IF i = 1 THEN Unit ELSE 0],
       Tilt,
       Scaled(2, Tilt),
       [i \in Dims |-> 0] >>

\* rows a relation table is filled with, before any normalisation: 1 or 2
\* times a unit vector
RelationRows ==
    << Scaled(2, Tilt),
       [i \in Dims |-> IF i = 1 THEN 0 - 4 ELSE IF i = 2 THEN 3 ELSE 0],
       [i \in Dims |-> IF i = 1 THEN 2 * Unit ELSE 0] >>

\* a table whose row for id k is rows[k + shift], cyclically
TableOf(ids, rows, shift) ==
    [k \in ids |-> rows[((k + shift) % Len(rows)) + 1]]

Shifts(rows) == 0 .. (Len(rows) - 1)

\* an embedding attribute that holds no table
None == <<>>

\* functional.normalize(x): every row v becomes v / max(||v||_2, 1e-12)
normalize(weight) ==
    [e \in DOMAIN weight |->
        LET v == weight[e]
            n == Norm(v)
        IN  [i \in DOMAIN v |-> IF n = 0 THEN 0 ELSE (v[i] * Unit) \div n]]

EIds == 0 .. (NumEntities - 1)

RIds == 0 .. (NumRelations - 1)

\* lines 82-83: a new entity table as the initialiser fills it
FreshEntities(shift) == TableOf(EIds, EntityRows, shift)

\* lines 86-89: a new relation table as the initialiser fills it, then
\* every row brought to unit length
FreshRelations(shift) == normalize(TableOf(RIds, RelationRows, shift))

\* torch.sum(h * r * t, dim=-1) on one (h, r, t) of the broadcast shape
interaction_function(h, r, t) ==
    SumOver([i \in DOMAIN h |-> h[i] * r[i] * t[i]], DOMAIN h)

NumRows(weight) == Cardinality(DOMAIN weight)

\* h, r, t of shape (batch, e); scores of shape (batch,) viewed as (batch, 1)
score_hrt(hrt_batch) ==
    LET h == [i \in DOMAIN hrt_batch |-> entity_embeddings[hrt_batch[i][1]]]
        r == [i \in DOMAIN hrt_batch |-> relation_embeddings[hrt_batch[i][2]]]
        t == [i \in DOMAIN hrt_batch |-> entity_embeddings[hrt_batch[i][3]]]
    IN  [i \in DOMAIN hrt_batch |-> <<interaction_function(h[i], r[i], t[i])>>]

\* h, r of shape (batch, 1, e) against t = all rows, shape (1, num_entities, e)
score_t(hr_batch) ==
    LET h == [i \in DOMAIN hr_batch |-> entity_embeddings[hr_batch[i][1]]]
        r == [i \in DOMAIN hr_batch |-> relation_embeddings[hr_batch[i][2]]]
        t == [j \in 1 .. NumRows(entity_embeddings) |->
                 entity_embeddings[j - 1]]
    IN  [i \in DOMAIN hr_batch |->
            [j \in DOMAIN t |-> interaction_function(h[i], r[i], t[j])]]

score_h_first_column(rt_batch) ==
    LET h == [j \in 1 .. NumRows(entity_embeddings) |->
                 entity_embeddings[j - 1]]
        r == [i \in DOMAIN rt_batch |-> relation_embeddings[rt_batch[i][1]]]
        t == [i \in DOMAIN rt_batch |-> entity_embeddings[rt_batch[i][1]]]
    IN  [i \in DOMAIN rt_batch |->
            [j \in DOMAIN h |-> interaction_function(h[j], r[i], t[i])]]

\* h = all rows, shape (1, num_entities, e) against r, t of shape (batch, 1, e)
score_h(rt_batch) ==
    LET h == [j \in 1 .. NumRows(entity_embeddings) |->
                 entity_embeddings[j - 1]]
        r == [i \in DOMAIN rt_batch |-> relation_embeddings[rt_batch[i][1]]]
        t == [i \in DOMAIN rt_batch |-> entity_embeddings[rt_batch[i][2]]]
    IN  [i \in DOMAIN rt_batch |->
            [j \in DOMAIN h |-> interaction_function(h[j], r[i], t[i])]]

ModelIdle ==
    /\ regularizer_updated = FALSE
    /\ score_input = <<>>
    /\ scores = <<>>
    /\ last_call = "none"
    /\ raised = "none"

\* the triple after x: every id moved on by one, cyclically
Following(x) ==
    <<(x[1] + 1) % NumEntities, (x[2] + 1) % NumRelations,
      (x[3] + 2) % NumEntities>>

\* batches of one row, or of a row and the triple after it
BatchesOf(rows) == {<<x>> : x \in rows} \cup {<<x, Following(x)>> : x \in rows}

\* the (h, r) and (r, t) columns of a batch of triples
HrOf(batch) == [i \in DOMAIN batch |-> <<batch[i][1], batch[i][2]>>]

RtOf(batch) == [i \in DOMAIN batch |-> <<batch[i][2], batch[i][3]>>]

\* a call that ends in an exception returns nothing and leaves the model as
\* it was
Raises(method, error) ==
    /\ last_call' = method
    /\ raised' = error
    /\ scores' = <<>>
    /\ UNCHANGED <<entity_embeddings, relation_embeddings,
                   regularizer_updated, score_input, trainVars,
                   unconstrained, lossVars>>

Returns(method, result) ==
    /\ last_call' = method
    /\ raised' = "none"
    /\ scores' = result
    /\ regularizer_updated' = TRUE
    /\ UNCHANGED <<entity_embeddings, relation_embeddings, score_input,
                   trainVars, unconstrained, lossVars>>

\* lines 131-143; calling an attribute that is None is a TypeError
CallScoreHrt ==
    IF entity_embeddings = None \/ relation_embeddings = None
    THEN Raises("score_hrt", "TypeError")
    ELSE Returns("score_hrt", score_hrt(score_input))

\* lines 145-157
CallScoreT ==
    IF entity_embeddings = None \/ relation_embeddings = None
    THEN Raises("score_t", "TypeError")
    ELSE Returns("score_t", score_t(HrOf(score_input)))

\* lines 159-171; line 161 reads .weight of the entity table first
CallScoreH ==
    IF entity_embeddings = None
    THEN Raises("score_h", "AttributeError")
    ELSE IF relation_embeddings = None
    THEN Raises("score_h", "TypeError")
    ELSE Returns("score_h", score_h(RtOf(score_input)))

\* lines 80-91: only a missing table is created
init_empty_weights_ ==
    /\ \E shift \in Shifts(EntityRows) :
          entity_embeddings' =
              IF entity_embeddings = None THEN FreshEntities(shift)
              ELSE entity_embeddings
    /\ \E shift \in Shifts(RelationRows) :
          relation_embeddings' =
              IF relation_embeddings = None THEN FreshRelations(shift)
              ELSE relation_embeddings
    /\ last_call' = "init_empty_weights_"
    /\ raised' = "none"
    /\ UNCHANGED <<regularizer_updated, score_input, scores, trainVars,
                   unconstrained, lossVars>>

\* lines 93-96
clear_weights_ ==
    /\ entity_embeddings' = None
    /\ relation_embeddings' = None
    /\ last_call' = "clear_weights_"
    /\ raised' = "none"
    /\ UNCHANGED <<regularizer_updated, score_input, scores, trainVars,
                   unconstrained, lossVars>>

\* lines 98-103: the base class resets the regularizer, then the entity rows
\* are normalized; .weight of a table that is None is an AttributeError
post_parameter_update ==
    /\ regularizer_updated' = FALSE
    /\ last_call' = "post_parameter_update"
    /\ IF entity_embeddings = None
       THEN /\ raised' = "AttributeError"
            /\ UNCHANGED <<entity_embeddings, unconstrained>>
       ELSE /\ raised' = "none"
            /\ entity_embeddings' = normalize(entity_embeddings)
            /\ unconstrained' = FALSE
    /\ UNCHANGED <<relation_embeddings, score_input, scores, trainVars,
                   lossVars>>

(***************************************************************************)
(* TransE.loss_fct                                                         *)
(***************************************************************************)
\* nn.MarginRankingLoss(margin, size_average=False):
\* sum_i max(0, -y * (x1_i - x2_i) + margin), y broadcast over the batch
MarginRankingLoss(x1, x2, y, margin) ==
    SumSeq([i \in DOMAIN x1 |->
               Max(0, (0 - y[1]) * (x1[i] - x2[i]) + margin)])

\* lines 27-46: y = [-1]; both scores unsqueezed to shape (1,)
loss_fct(pos, neg) ==
    MarginRankingLoss(<<pos>>, <<neg>>, <<0 - 1>>, margin_loss)

LossIdle ==
    /\ pos_score = 0
    /\ neg_score = 0
    /\ loss = 0
    /\ loss_computed = FALSE

Scores == (0 - MaxScore) .. MaxScore

CallLossFct(pos, neg) ==
    /\ pos_score' = pos
    /\ neg_score' = neg
    /\ loss' = loss_fct(pos, neg)
    /\ loss_computed' = TRUE
    /\ UNCHANGED <<margin_loss, trainVars, unconstrained, modelVars>>

(***************************************************************************)
(* Specifications                                                          *)
(***************************************************************************)
\* the tables of a model constructed without passing any in
DefaultEntities == FreshEntities(0)

DefaultRelations == FreshRelations(0)

\* the relation tables a model can be constructed with: one passed in, kept
\* as it is (line 75), or one the initialiser creates
ConstructedRelations ==
    {TableOf(RIds, RelationRows, shift) : shift \in Shifts(RelationRows)}
        \cup {FreshRelations(shift) : shift \in Shifts(RelationRows)}

\* (label_smoothing, epsilon numerator): epsilon is not read when smoothing
\* is off
Smoothings == {<<FALSE, 0>>} \cup ({TRUE} \X {1, EpsDen})

\* a freshly constructed training loop
Init ==
    /\ TrainIdle
    /\ unconstrained = FALSE
    /\ ModelIdle
    /\ entity_embeddings = DefaultEntities
    /\ relation_embeddings = DefaultRelations
    /\ LossIdle
    /\ margin_loss = 1

Next ==
    \/ \E ti \in TrainingSets, ne \in 0 .. MaxEpochs, bs \in 1 .. MaxBatchSize,
          sm \in Smoothings : Train(ti, ne, bs, sm[1], sm[2])
    \/ EpochStart
    \/ BuildLabels
    \/ ZeroGrad
    \/ Forward
    \/ Backward
    \/ OptimizerStep
    \/ EpochEnd
    \/ Return
    \/ Raise

Spec == Init /\ [][Next]_vars

\* a DistMult model over some embedding tables, and a batch of triples to
\* score
InitScore ==
    /\ TrainIdle
    /\ unconstrained = FALSE
    /\ regularizer_updated = FALSE
    /\ scores = <<>>
    /\ last_call = "none"
    /\ raised = "none"
    /\ score_input \in BatchesOf(EIds \X RIds \X EIds)
    /\ \E shift \in Shifts(EntityRows) :
          entity_embeddings = FreshEntities(shift)
    /\ relation_embeddings \in ConstructedRelations
    /\ LossIdle
    /\ margin_loss = 1

NextScore ==
    \/ CallScoreHrt
    \/ CallScoreT
    \/ CallScoreH
    \/ post_parameter_update
    \/ clear_weights_
    \/ init_empty_weights_

SpecScore == InitScore /\ [][NextScore]_vars

\* a TransE model with some configured margin
InitLoss ==
    /\ TrainIdle
    /\ unconstrained = FALSE
    /\ ModelIdle
    /\ entity_embeddings = DefaultEntities
    /\ relation_embeddings = DefaultRelations
    /\ LossIdle
    /\ margin_loss \in 1 .. MaxMargin

NextLoss == \E pos \in Scores, neg \in Scores : CallLossFct(pos, neg)

SpecLoss == InitLoss /\ [][NextLoss]_vars

(***************************************************************************)
(* Properties of CWATrainingLoop.train                                     *)
(***************************************************************************)
NumInstances == Len(training_instances.instances)

Running == ~NotTraining

PhasePairs ==
    { <<"none", "zero_grad">>, <<"step", "zero_grad">>,
      <<"zero_grad", "forward">>, <<"forward", "backward">>,
      <<"backward", "step">> }

\* a step that performs an optimizer operation (a new call only resets
\* last_op to "none")
PhaseStep ==
    last_op' # last_op /\ last_op' # "none" =>
        /\ <<last_op, last_op'>> \in PhasePairs
        /\ last_op' = "backward" => grad_count' = 1

\* C1: every batch runs zero_grad, forward, backward, step in that order,
\* the step of one batch precedes the zero_grad of the next, and a backward
\* pass leaves exactly its own batch's gradient accumulated.
C1_FourPhaseOrder == [][PhaseStep]_vars

\* the backward pass of the second batch of a second epoch has run
C1_Witness == pc = "step" /\ b = 2 /\ epoch = 1 /\ grad_count = 1

\* C2: at every forward pass the hook post_parameter_update has run since
\* the last optimizer step.
C2_HookAfterEveryStep == pc = "forward" => ~unconstrained

SmoothedValue(is_true, ent) ==
    IF is_true THEN RatSub(Rat(1, 1), Epsilon)
               ELSE RatDiv(Epsilon, Rat(ent - 1, 1))

\* C4: with label smoothing every true completion has label 1 - epsilon and
\* every other entity epsilon / (num_entities - 1); without it the labels
\* are 1 and 0.
C4_LabelValues ==
    pc = "zero_grad" =>
        \A i \in DOMAIN batch_labels_full :
            \A e \in DOMAIN batch_labels_full[i] :
                LET is_true == e \in labels_batches[b][i]
                    ent == training_instances.num_entities
                IN  RatEq(batch_labels_full[i][e],
                          IF label_smoothing
                          THEN SmoothedValue(is_true, ent)
                          ELSE IF is_true THEN Rat(1, 1) ELSE Rat(0, 1))

WeightedSum(log) == SumSeq([k \in DOMAIN log |-> log[k][1] * log[k][2]])

SizeSum(log) == SumSeq([k \in DOMAIN log |-> log[k][2]])

EpochLossStep ==
    Len(losses_per_epochs') > Len(losses_per_epochs) =>
        /\ SizeSum(batch_losses) = NumInstances
        /\ RatEq(losses_per_epochs'[Len(losses_per_epochs')],
                 Rat(WeightedSum(batch_losses), NumInstances))

\* C5: the value appended for an epoch is the sum of batch_loss * batch_size
\* over the epoch's batches divided by the number of training instances.
C5_SizeWeightedMean == [][EpochLossStep]_vars

\* an epoch was just recorded whose size-weighted mean differs from the
\* mean of its batch losses (batches of sizes 2 and 1)
C5_Witness ==
    /\ pc = "epoch_start"
    /\ Len(losses_per_epochs) >= 1
    /\ Len(batch_losses) = 2
    /\ batch_losses[1][2] = 2
    /\ batch_losses[2][2] = 1
    /\ WeightedSum(batch_losses) * Len(batch_losses) #
           (batch_losses[1][1] + batch_losses[2][1]) * NumInstances

InvalidArguments ==
    \/ num_epochs <= 0
    \/ batch_size <= 0
    \/ label_smoothing /\ ~(0 <= eps_num /\ eps_num < EpsDen)

\* C6: a call of train with invalid arguments ends in InvalidConfiguration
\* at once: no batch is processed, no optimizer step is taken and nothing
\* is appended to the history.
C6_EagerValidation ==
    [][NotTraining /\ InvalidArguments' =>
           /\ pc' = "raised"
           /\ exc' = "InvalidConfiguration"
           /\ losses_per_epochs' = losses_per_epochs
           /\ unconstrained' = unconstrained]_vars

HistoryStep ==
    /\ Len(losses_per_epochs') >= Len(losses_per_epochs)
    /\ Len(losses_per_epochs') <= Len(losses_per_epochs) + 1
    /\ SubSeq(losses_per_epochs', 1, Len(losses_per_epochs)) =
           losses_per_epochs
    /\ Len(losses_per_epochs') > Len(losses_per_epochs) =>
           /\ pc = "epoch_end"
           /\ b > Len(batches)
           /\ Len(seen) = NumInstances

\* a call for num_epochs > 0 epochs that returns has run them all, and the
\* history it hands back holds num_epochs entries
ReturnStep ==
    Running /\ num_epochs > 0 /\ pc' = "done" =>
        /\ epoch = num_epochs
        /\ Len(losses_per_epochs') = num_epochs

\* C7: the loss history only grows, by one entry at the end of each epoch
\* after all its batches, earlier entries stay as they are, a call that
\* returns has appended exactly num_epochs entries, and the history it
\* returns has exactly num_epochs entries.
C7_AppendOnlyHistory ==
    /\ [](Running => Len(losses_per_epochs) = entries_at_call + epoch)
    /\ [][HistoryStep /\ ReturnStep]_vars

\* an exception ends the call with nothing appended, and after it nothing
\* happens until the caller calls train again
AbortStep ==
    /\ exc' # "none" /\ exc = "none" =>
           pc' = "raised" /\ losses_per_epochs' = losses_per_epochs
    /\ exc # "none" =>
           /\ pc' = "epoch_start"
           /\ exc' = "none"
           /\ epoch' = 0
           /\ losses_per_epochs' = losses_per_epochs

\* C8: an exception in a batch ends the run: train is left at once, nothing
\* is appended for the failing epoch, no later batch or epoch of the call
\* runs, and earlier entries of the history stay.
C8_AbortOnError ==
    /\ [][AbortStep]_vars
    /\ [](exc # "none" => pc = "raised")

\* a call raised after a backward pass, with one entry in the history
C8_Witness ==
    /\ pc = "raised"
    /\ exc = "Error"
    /\ Len(losses_per_epochs) = 1
    /\ last_op = "backward"
    /\ grad_count = 1

Occurrences(s, x) == Cardinality({i \in DOMAIN s : s[i] = x})

InstanceRows ==
    [k \in 1 .. NumInstances |->
        <<training_instances.instances[k], training_instances.labels[k]>>]

CurrentRows ==
    [i \in 1 .. Len(subject_relation_pairs) |->
        <<subject_relation_pairs[i], labels[i]>>]

SameMultiset(s, t) ==
    /\ Len(s) = Len(t)
    /\ \A i \in DOMAIN s : Occurrences(s, s[i]) = Occurrences(t, s[i])

\* C9: in every epoch the label set at position i is the one of the pair at
\* position i, the (pair, labels) rows are the training instances in some
\* order, and by the end of the epoch each was handed out in exactly one
\* batch.
C9_PairsKeepTheirLabels ==
    /\ Running /\ Len(labels) = Len(subject_relation_pairs) =>
           SameMultiset(CurrentRows, InstanceRows)
    /\ Running => Len(labels) = Len(subject_relation_pairs)
    /\ pc \in BatchPhases \cup {"epoch_end"} =>
           /\ \A i \in DOMAIN seen : seen[i] = CurrentRows[i]
           /\ Len(batches) = Len(labels_batches)
    /\ pc = "epoch_end" => SameMultiset(seen, InstanceRows)

\* end of a second epoch over three instances with different label sets,
\* in an order other than the original one
C9_Witness ==
    /\ pc = "epoch_end"
    /\ epoch = 1
    /\ NumInstances = 3
    /\ Len(seen) = 3
    /\ subject_relation_pairs # training_instances.instances
    /\ training_instances.labels[1] # training_instances.labels[2]

(***************************************************************************)
(* Properties of TransE.loss_fct                                           *)
(***************************************************************************)
\* C3: the loss is the hinge max(0, margin - (pos_score - neg_score)).
C3_HingeOnPositiveMinusNegative ==
    loss_computed => loss = Max(0, margin_loss - (pos_score - neg_score))

(***************************************************************************)
(* Properties of DistMult                                                  *)
(***************************************************************************)
TripleScore(h, r, t) ==
    SumOver([d \in Dims |->
                entity_embeddings[h][d] * relation_embeddings[r][d]
                    * entity_embeddings[t][d]], Dims)

ScoresAgree ==
    /\ last_call = "score_hrt" /\ raised = "none" =>
           /\ Len(scores) = Len(score_input)
           /\ \A i \in DOMAIN score_input :
                  LET h == score_input[i][1]
                      r == score_input[i][2]
                      t == score_input[i][3]
                  IN  /\ Len(scores[i]) = 1
                      /\ scores[i][1] = TripleScore(h, r, t)
                      /\ scores[i][1] = score_t(HrOf(score_input))[i][t + 1]
                      /\ scores[i][1] = score_h(RtOf(score_input))[i][h + 1]
    /\ last_call = "score_t" /\ raised = "none" =>
           /\ Len(scores) = Len(score_input)
           /\ \A i \in DOMAIN score_input :
                  /\ Len(scores[i]) = NumEntities
                  /\ \A e \in EIds :
                         scores[i][e + 1] =
                             TripleScore(score_input[i][1], score_input[i][2], e)
                  /\ scores[i][score_input[i][3] + 1] =
                         score_hrt(score_input)[i][1]
    /\ last_call = "score_h" /\ raised = "none" =>
           /\ Len(scores) = Len(score_input)
           /\ \A i \in DOMAIN score_input :
                  /\ Len(scores[i]) = NumEntities
                  /\ \A e \in EIds :
                         scores[i][e + 1] =
                             TripleScore(e, score_input[i][2], score_input[i][3])
                  /\ scores[i][score_input[i][1] + 1] =
                         score_hrt(score_input)[i][1]

ScoringKeepsTables ==
    last_call' \in {"score_hrt", "score_t", "score_h"} =>
        /\ entity_embeddings' = entity_embeddings
        /\ relation_embeddings' = relation_embeddings

\* C10: score_hrt, score_t and score_h give the same score, the sum over the
\* dimensions of h * r * t, for the same (h, r, t); score_hrt is batch x 1,
\* score_t and score_h are batch x num_entities; none of them changes the
\* embedding tables.
C10_ScoringFormsAgree == []ScoresAgree /\ [][ScoringKeepsTables]_vars

\* score_h was applied to two different triples and gave different rows,
\* with a negative score among them
C10_Witness ==
    /\ last_call = "score_h"
    /\ raised = "none"
    /\ Len(score_input) = 2
    /\ score_input[1] # score_input[2]
    /\ scores[1] # scores[2]
    /\ \E e \in EIds : scores[1][e + 1] < 0

====
